---- MODULE Spec2Model ----
(***************************************************************************)
(* A model of the jas router: NewRouter builds the route table and the gap *)
(* table from resource descriptors, resolvePath maps a request onto a      *)
(* route key, ServeHTTP looks the key up, and the AppError values log      *)
(* themselves.                                                             *)
(*                                                                         *)
(* A Go string is a sequence of one-character strings, so that slicing,    *)
(* splitting and case conversion are computed the way the code computes    *)
(* them.  An int64 is a canonical signed decimal numeral (a sequence of    *)
(* digit characters with an optional leading "-"), so that the full 64-bit *)
(* range of strconv.ParseInt is kept.                                      *)
(***************************************************************************)
EXTENDS Integers, Sequences, FiniteSets, TLC

VARIABLES
    resources,     \* the arguments of NewRouter
    pc,            \* "new" | "serving" | "served" | "panicked" for the router,
                   \* "resolve" | "resolved" for the resolver, "log" | "logged"
    methodMap,     \* Router.methodMap : route key -> handler
    gapsMap,       \* Router.gapsMap   : resource token -> gap segments
    request,       \* the request last handed to ServeHTTP / resolvePath
    resolved,      \* what resolvePath returned for it
    served,        \* what ServeHTTP did with it
    requestErrorLogger,   \* Config.RequestErrorLogger  # nil
    internalErrorLogger,  \* Config.InternalErrorLogger # nil
    logCall,       \* the Log call last made (receiver and call stack)
    logged,        \* the lines that call handed to its logger
    logPanicked    \* that call ended in a run-time panic

vars == <<resources, pc, methodMap, gapsMap, request, resolved, served,
          requestErrorLogger, internalErrorLogger, logCall, logged, logPanicked>>

routerVars == <<resources, methodMap, gapsMap, request, resolved, served>>
logVars == <<requestErrorLogger, internalErrorLogger, logCall, logged, logPanicked>>

None == "none"

----------------------------------------------------------------------------
(* Strings *)

UpperLetters ==
    <<"A","B","C","D","E","F","G","H","I","J","K","L","M",
      "N","O","P","Q","R","S","T","U","V","W","X","Y","Z">>

LowerLetters ==
    <<"a","b","c","d","e","f","g","h","i","j","k","l","m",
      "n","o","p","q","r","s","t","u","v","w","x","y","z">>

DecDigits == <<"0","1","2","3","4","5","6","7","8","9">>

HexDigits == <<"0","1","2","3","4","5","6","7","8","9","a","b","c","d","e","f">>

IsUpper(c) == \E i \in DOMAIN UpperLetters : UpperLetters[i] = c

IsLower(c) == \E i \in DOMAIN LowerLetters : LowerLetters[i] = c

IsDigit(c) == \E i \in DOMAIN DecDigits : DecDigits[i] = c

DigitVal(c) == (CHOOSE i \in DOMAIN DecDigits : DecDigits[i] = c) - 1

ToLowerChar(c) ==
    IF IsUpper(c)
    THEN LowerLetters[CHOOSE i \in DOMAIN UpperLetters : UpperLetters[i] = c]
    ELSE c

ToUpperChar(c) ==
    IF IsLower(c)
    THEN UpperLetters[CHOOSE i \in DOMAIN LowerLetters : LowerLetters[i] = c]
    ELSE c

\* strings.ToLower / strings.ToUpper
ToLower(s) == [i \in DOMAIN s |-> ToLowerChar(s[i])]

ToUpper(s) == [i \in DOMAIN s |-> ToUpperChar(s[i])]

\* s[from:] and s[:to] with Go's 0-based offsets
SliceFrom(s, from) == SubSeq(s, from + 1, Len(s))

SliceTo(s, to) == SubSeq(s, 1, to)

\* strings.HasPrefix
HasPrefix(s, p) == Len(s) >= Len(p) /\ SubSeq(s, 1, Len(p)) = p

\* strings.Split(s, sep) for a one-character separator: the pieces between
\* the separators, one more than there are separators
RECURSIVE SplitFrom(_, _, _, _)
SplitFrom(s, sep, i, cur) ==
    IF i > Len(s) THEN <<cur>>
    ELSE IF s[i] = sep THEN <<cur>> \o SplitFrom(s, sep, i + 1, <<>>)
    ELSE SplitFrom(s, sep, i + 1, Append(cur, s[i]))

Split(s, sep) == SplitFrom(s, sep, 1, <<>>)

\* strings.Join(parts, sep); sep is a string
RECURSIVE Join(_, _)
Join(parts, sep) ==
    IF Len(parts) = 0 THEN <<>>
    ELSE IF Len(parts) = 1 THEN parts[1]
    ELSE parts[1] \o sep \o Join(Tail(parts), sep)

\* strings.Replace(s, old, new, -1) for a one-character old
RECURSIVE ReplaceAll(_, _, _)
ReplaceAll(s, old, new) ==
    IF Len(s) = 0 THEN <<>>
    ELSE (IF Head(s) = old THEN new ELSE <<Head(s)>>) \o ReplaceAll(Tail(s), old, new)

SLASH == <<"/">>
IDSEG == <<":","i","d">>
SLASHID == <<"/",":","i","d">>
USID == <<"_","i","d">>
GET == <<"G","E","T">>
POST == <<"P","O","S","T">>
PUT == <<"P","U","T">>
DELETE == <<"D","E","L","E","T","E">>
DETETE == <<"D","E","T","E","T","E">>
HEAD == <<"H","E","A","D">>

----------------------------------------------------------------------------
(* strconv.ParseInt(s, 10, 64) *)

ZERO == <<"0">>
MaxInt64 == <<"9","2","2","3","3","7","2","0","3","6","8","5","4","7","7","5","8","0","7">>
MinInt64 == <<"-","9","2","2","3","3","7","2","0","3","6","8","5","4","7","7","5","8","0","8">>
\* 1 << 63, the magnitude at which a signed 64-bit value overflows
Cutoff == <<"9","2","2","3","3","7","2","0","3","6","8","5","4","7","7","5","8","0","8">>

RECURSIVE StripZeros(_)
StripZeros(d) ==
    IF Len(d) > 1 /\ Head(d) = "0" THEN StripZeros(Tail(d)) ELSE d

\* a < b for magnitudes without leading zeros
RECURSIVE LexLess(_, _)
LexLess(a, b) ==
    IF Len(a) = 0 THEN FALSE
    ELSE IF DigitVal(Head(a)) # DigitVal(Head(b)) THEN DigitVal(Head(a)) < DigitVal(Head(b))
    ELSE LexLess(Tail(a), Tail(b))

MagLess(a, b) == Len(a) < Len(b) \/ (Len(a) = Len(b) /\ LexLess(a, b))

\* err is "nil", "syntax" (ErrSyntax) or "range" (ErrRange); on a syntax
\* error the value is 0, on a range error it is the nearest int64
ParseInt(s) ==
    IF Len(s) = 0 THEN [val |-> ZERO, err |-> "syntax"]
    ELSE
      LET neg == s[1] = "-"
          digits == IF s[1] = "+" \/ s[1] = "-" THEN Tail(s) ELSE s
      IN  IF Len(digits) = 0 \/ \E i \in DOMAIN digits : ~IsDigit(digits[i])
          THEN [val |-> ZERO, err |-> "syntax"]
          ELSE
            LET un == StripZeros(digits)
            IN  IF ~neg /\ ~MagLess(un, Cutoff)
                THEN [val |-> MaxInt64, err |-> "range"]
                ELSE IF neg /\ MagLess(Cutoff, un)
                THEN [val |-> MinInt64, err |-> "range"]
                ELSE [val |-> IF neg /\ un # ZERO THEN <<"-">> \o un ELSE un,
                      err |-> "nil"]

----------------------------------------------------------------------------
(* Route table construction *)

WordSeparator == "_"

\* convertName with the separator left out behind one that the name
\* already has
RECURSIVE WriteRunesOnce(_, _)
WriteRunesOnce(name, i) ==
    IF i > Len(name) THEN <<>>
    ELSE (IF i > 1 /\ IsUpper(name[i]) /\ name[i - 1] # WordSeparator
          THEN <<WordSeparator>> ELSE <<>>)
         \o <<name[i]>> \o WriteRunesOnce(name, i + 1)

convertNameOnce(name) == ToLower(WriteRunesOnce(name, 1))

\* convertName: a separator before every upper-case letter but the first
\* character, then everything lower-cased
RECURSIVE WriteRunes(_, _)
WriteRunes(name, i) ==
    IF i > Len(name) THEN <<>>
    ELSE (IF i > 1 /\ IsUpper(name[i]) THEN <<WordSeparator>> ELSE <<>>)
         \o <<name[i]>> \o WriteRunes(name, i + 1)

convertName(name) == ToLower(WriteRunes(name, 1))

\* A method as reflect shows it: its name, the number of its parameters
\* (the receiver included), of its results, and whether In(1) is *Context.
validateMethod(method) ==
    /\ IsUpper(method.name[1])
    /\ method.numIn = 2
    /\ method.numOut = 0
    /\ method.inContext

IsHttpMethodWord(w) ==
    w \in {ToLower(POST), ToLower(GET), ToLower(PUT), ToLower(DELETE)}

\* IsIdResource with the length test one too high
IsIdResourceLonger(resNameSnake) ==
    /\ Len(resNameSnake) > 4
    /\ SliceFrom(resNameSnake, Len(resNameSnake) - 3) = USID

\* the test of line 206 that makes a resource an id-resource
IsIdResource(resNameSnake) ==
    /\ Len(resNameSnake) > 3
    /\ SliceFrom(resNameSnake, Len(resNameSnake) - 3) = USID

\* the resource part of the path, lines 202-214, for a resource v
ResourcePath(v) ==
    LET resNameSnake == convertName(v.name)
    IN  IF IsIdResource(resNameSnake)
        THEN SliceTo(resNameSnake, Len(resNameSnake) - 3) \o SLASHID
        ELSE IF v.hasGap
        THEN resNameSnake \o SLASH \o v.gap
        ELSE resNameSnake

\* IsIdMethod with > for >=
IsIdMethodStrict(isIdResource, methodWords, minIdMethodLen) ==
    /\ ~isIdResource
    /\ Len(methodWords) > minIdMethodLen
    /\ methodWords[Len(methodWords)] = <<"i","d">>

\* the comparison of line 231 that makes a method an id-method
IsIdMethod(isIdResource, methodWords, minIdMethodLen) ==
    /\ ~isIdResource
    /\ Len(methodWords) >= minIdMethodLen
    /\ methodWords[Len(methodWords)] = <<"i","d">>

\* the route key of one valid method: lines 220-252
MethodKey(resNameSnake, isIdResource, method) ==
    LET name0 == convertName(method.name)
        methodWords == Split(name0, WordSeparator)
        hasHttpMethod == IsHttpMethodWord(methodWords[1])
        minIdMethodLen == IF hasHttpMethod THEN 3 ELSE 2
        isIdMethod == IsIdMethod(isIdResource, methodWords, minIdMethodLen)
        name1 == IF isIdMethod THEN SliceTo(name0, Len(name0) - 3) ELSE name0
        name2 == IF hasHttpMethod
                 THEN IF Len(methodWords) > 1
                      THEN SLASH \o SliceFrom(name1, Len(methodWords[1]) + 1)
                      ELSE <<>>
                 ELSE SLASH \o name1
        httpMethod == IF hasHttpMethod THEN ToUpper(methodWords[1]) ELSE GET
        name3 == IF isIdMethod THEN name2 \o SLASHID ELSE name2
        methodName == IF resNameSnake = <<>> /\ Len(name3) > 0
                      THEN SliceFrom(name3, 1) ELSE name3
    IN  httpMethod \o <<" ", "/">> \o resNameSnake \o methodName

\* MapPut that keeps an entry the map already has
MapPutIfAbsent(m, k, v) ==
    [x \in DOMAIN m \cup {k} |-> IF x \in DOMAIN m THEN m[x] ELSE v]

\* m[k] = v on a Go map
MapPut(m, k, v) == [x \in DOMAIN m \cup {k} |-> IF x = k THEN v ELSE m[x]]

EmptyMap == [x \in {} |-> None]

\* the inner loop, from method i on; ri is the position of the resource
\* among the arguments and stands for resValue
RECURSIVE RegisterMethods(_, _, _, _, _, _)
RegisterMethods(mm, v, ri, resNameSnake, isIdResource, i) ==
    IF i > Len(v.methods) THEN mm
    ELSE IF ~validateMethod(v.methods[i])
    THEN RegisterMethods(mm, v, ri, resNameSnake, isIdResource, i + 1)
    ELSE RegisterMethods(
            MapPut(mm, MethodKey(resNameSnake, isIdResource, v.methods[i]),
                   [res |-> ri, method |-> v.methods[i].name]),
            v, ri, resNameSnake, isIdResource, i + 1)

\* the outer loop, from argument ri on.  reflect's Type.Elem panics for an
\* argument that is no pointer.
RECURSIVE RegisterResources(_, _, _)
RegisterResources(router, rs, ri) ==
    IF ri > Len(rs) THEN router
    ELSE IF ~rs[ri].isPointer
    THEN [router EXCEPT !.panicked = TRUE]
    ELSE
      LET v == rs[ri]
          resNameSnake == convertName(v.name)
          isIdResource == IsIdResource(resNameSnake)
          gm == IF ~isIdResource /\ v.hasGap
                THEN MapPut(router.gapsMap, resNameSnake, Split(v.gap, "/"))
                ELSE router.gapsMap
          mm == RegisterMethods(router.methodMap, v, ri, ResourcePath(v),
                                isIdResource, 1)
      IN  RegisterResources([methodMap |-> mm, gapsMap |-> gm, panicked |-> FALSE],
                            rs, ri + 1)

NewRouter(rs) ==
    RegisterResources([methodMap |-> EmptyMap, gapsMap |-> EmptyMap,
                       panicked |-> FALSE], rs, 1)

----------------------------------------------------------------------------
(* Path resolution *)

\* r.gapsMap[token]: nil (of length 0) when the token has no entry
GapsOf(gm, token) == IF token \in DOMAIN gm THEN gm[token] ELSE <<>>

\* the switch of lines 309-313
ResolveVerb(method) ==
    IF method \in {POST, DETETE, PUT} THEN method ELSE GET

\* segments is 1-based here: Go's segments[k] is segments[k + 1]
resolvePath(gm, method, rawPath) ==
    LET segments == Split(rawPath, "/")
        httpMethod == ResolveVerb(method)
        path0 == httpMethod \o <<" ", "/">> \o segments[1]
        seg1 == IF Len(segments) >= 2 THEN segments[2] ELSE <<>>
        first == ParseInt(seg1)
    IN  IF first.err = "nil"
        THEN [path |-> path0 \o SLASHID \o
                       (IF Len(segments) > 2 /\ segments[3] # <<>>
                        THEN SLASH \o segments[3] ELSE <<>>),
              id |-> first.val, segments |-> segments, gaps |-> <<>>,
              gapsNil |-> TRUE]
        ELSE
          LET hasGaps == segments[1] \in DOMAIN gm
              gaps == GapsOf(gm, segments[1])
              path1 == IF hasGaps THEN path0 \o SLASH \o Join(gaps, SLASH) ELSE path0
              methodIndex == Len(gaps) + 1
              path2 == IF Len(segments) > methodIndex /\ segments[methodIndex + 1] # <<>>
                       THEN path1 \o SLASH \o segments[methodIndex + 1] ELSE path1
              nextIndex == methodIndex + 1
              tryNext == Len(segments) > nextIndex /\ segments[nextIndex + 1] # <<>>
              second == IF tryNext THEN ParseInt(segments[nextIndex + 1]) ELSE first
          IN  [path |-> IF tryNext /\ second.err = "nil" THEN path2 \o SLASHID ELSE path2,
               id |-> second.val, segments |-> segments, gaps |-> gaps,
               gapsNil |-> ~hasGaps]

----------------------------------------------------------------------------
(* Inputs *)

MaxResources == 2
MaxSegments == 3

Users == <<"U","s","e","r","s">>
UsersId == <<"U","s","e","r","s","I","d">>
Id == <<"I","d">>
AId == <<"A","I","d">>
users == <<"u","s","e","r","s">>
profile == <<"p","r","o","f","i","l","e">>
foo == <<"f","o","o">>
nameSeg == <<"n","a","m","e">>
usname == <<"_","n","a","m","e">>
five == <<"5">>
minusThree == <<"-","3">>
\* a digit string beyond the int64 range
tooBig == <<"9","2","2","3","3","7","2","0","3","6","8","5","4","7","7","5","8","0","8">>

\* a handler method: func (r *T) Name(ctx *jas.Context)
Handler(n) == [name |-> n, numIn |-> 2, numOut |-> 0, inContext |-> TRUE]

\* func (r *T) Gap() string
GapMethod == [name |-> <<"G","a","p">>, numIn |-> 1, numOut |-> 1, inContext |-> FALSE]

\* func (r *T) Count(ctx *jas.Context) int
CountMethod == [name |-> <<"C","o","u","n","t">>, numIn |-> 2, numOut |-> 1,
                inContext |-> TRUE]

mDeleteFoo == Handler(<<"D","e","l","e","t","e","F","o","o">>)
mFoo == Handler(<<"F","o","o">>)
mFooId == Handler(<<"F","o","o","I","d">>)
mGet == Handler(<<"G","e","t">>)
mGetFoo == Handler(<<"G","e","t","F","o","o">>)
mGetId == Handler(<<"G","e","t","I","d">>)
mGet_Name == Handler(<<"G","e","t","_","N","a","m","e">>)
mPostFooId == Handler(<<"P","o","s","t","F","o","o","I","d">>)
mPutBar == Handler(<<"P","u","t","B","a","r">>)

Resource(n, ms) ==
    [name |-> n, isPointer |-> TRUE, hasGap |-> FALSE, gap |-> <<>>, methods |-> ms]

\* reflect lists the methods of a type sorted by name
ResourcePool ==
    { Resource(Users, <<CountMethod, mDeleteFoo, mFoo, mFooId, mGetFoo, mGetId>>),
      Resource(UsersId, <<mFoo, mFooId, mGet>>),
      [Resource(Users, <<GapMethod, mGet_Name, mPostFooId>>)
          EXCEPT !.hasGap = TRUE, !.gap = profile],
      Resource(Id, <<mFoo>>),
      Resource(AId, <<mFoo>>),
      Resource(Users, <<mFoo, mPutBar>>),
      [Resource(Users, <<mFoo>>) EXCEPT !.isPointer = FALSE] }

SeqsUpTo(S, n) == UNION { [1..k -> S] : k \in 0..n }

ResourceLists == SeqsUpTo(ResourcePool, MaxResources)

\* the raw paths of up to MaxSegments segments over a set of segments
RawPaths(segs) ==
    { Join(ss, SLASH) : ss \in SeqsUpTo(segs, MaxSegments) \ {<<>>} }

ServeSegments == {users, profile, usname, five}
ServeMethods == {GET, DELETE}

ResolveSegments == {users, profile, foo, five, tooBig, minusThree, IDSEG, <<>>}
ResolveMethods == {GET, POST, PUT, DELETE, HEAD}

\* the routers the resolver is exercised on
ResolveLists ==
    { <<>>,
      <<Resource(UsersId, <<mFoo, mGet>>)>>,
      <<[Resource(Users, <<GapMethod, mFoo>>) EXCEPT !.hasGap = TRUE, !.gap = profile]>>,
      <<[Resource(Users, <<GapMethod, mFoo>>)
            EXCEPT !.hasGap = TRUE, !.gap = profile \o SLASH \o foo]>> }

----------------------------------------------------------------------------
(* The router *)

BasePath == SLASH

LogIdle ==
    /\ requestErrorLogger = FALSE
    /\ internalErrorLogger = TRUE
    /\ logCall = None
    /\ logged = <<>>
    /\ logPanicked = FALSE

Init ==
    /\ resources \in ResourceLists
    /\ pc = "new"
    /\ methodMap = EmptyMap
    /\ gapsMap = EmptyMap
    /\ request = None
    /\ resolved = None
    /\ served = None
    /\ LogIdle

\* router := NewRouter(resources...)
NewRouterCall ==
    /\ pc = "new"
    /\ LET router == NewRouter(resources)
       IN  /\ methodMap' = router.methodMap
           /\ gapsMap' = router.gapsMap
           /\ pc' = IF router.panicked THEN "panicked" ELSE "serving"
    /\ UNCHANGED <<resources, request, resolved, served>>
    /\ UNCHANGED logVars

\* router.ServeHTTP(w, r) with r.Method = method and r.URL.Path = urlPath,
\* under the configuration NewRouter sets (no CORS hook, no gzip, no
\* BeforeServe): not found, or the call of the handler with ctx.Id = id.
\* The router keeps nothing from one request to the next, so a behaviour
\* follows one request.
ServeHTTP(method, urlPath) ==
    /\ pc = "serving"
    /\ request' = [method |-> method, path |-> urlPath]
    /\ IF ~HasPrefix(urlPath, BasePath)
       THEN /\ resolved' = None
            /\ served' = [status |-> "NotFound"]
       ELSE LET rawPath == SliceFrom(urlPath, Len(BasePath))
                r == resolvePath(gapsMap, method, rawPath)
            IN  /\ resolved' = r
                /\ served' = IF r.path \in DOMAIN methodMap
                             THEN [status |-> "Called", handler |-> methodMap[r.path],
                                   id |-> r.id]
                             ELSE [status |-> "NotFound"]
    /\ pc' = "served"
    /\ UNCHANGED <<resources, methodMap, gapsMap>>
    /\ UNCHANGED logVars

ServeUrls == { SLASH \o p : p \in RawPaths(ServeSegments) } \cup { <<"*">> }

Next ==
    \/ NewRouterCall
    \/ \E method \in ServeMethods, urlPath \in ServeUrls : ServeHTTP(method, urlPath)

Spec == Init /\ [][Next]_vars

----------------------------------------------------------------------------
(* The resolver on its own *)

InitResolve ==
    /\ resources \in ResolveLists
    /\ pc = "resolve"
    /\ methodMap = NewRouter(resources).methodMap
    /\ gapsMap = NewRouter(resources).gapsMap
    /\ request = None
    /\ resolved = None
    /\ served = None
    /\ LogIdle

ResolvePath(method, rawPath) ==
    /\ pc = "resolve"
    /\ request' = [method |-> method, path |-> rawPath]
    /\ resolved' = resolvePath(gapsMap, method, rawPath)
    /\ pc' = "resolved"
    /\ UNCHANGED <<resources, methodMap, gapsMap, served>>
    /\ UNCHANGED logVars

NextResolve ==
    \E method \in ResolveMethods, rawPath \in RawPaths(ResolveSegments) :
        ResolvePath(method, rawPath)

SpecResolve == InitResolve /\ [][NextResolve]_vars

----------------------------------------------------------------------------
(* Errors and their log lines *)

MaxStack == 5

NL == "\n"

\* fmt's %d and %x of a natural number
RECURSIVE FormatNat(_, _)
FormatNat(n, digits) ==
    IF n < Len(digits) THEN <<digits[n + 1]>>
    ELSE FormatNat(n \div Len(digits), digits) \o <<digits[(n % Len(digits)) + 1]>>

\* fmt.Fprintf(buf, StackFormat, file, line, pc) with StackFormat
\* "%s:%d(0x%x);"
StackFormat(file, line, counter) ==
    file \o <<":">> \o FormatNat(line, DecDigits)
         \o <<"(","0","x">> \o FormatNat(counter, HexDigits) \o <<")",";">>

PanicSuffix == <<"m","e","/","p","a","n","i","c",".","c">>
ValueSuffix == <<"t","/","v","a","l","u","e",".","g","o">>

\* the loop of InternalError.Log from frame i on; runtime.Caller(i) is
\* stack[i + 1] and reports !ok past the end of the stack.  The slice
\* file[len(file)-10:] panics for a file name of fewer than 10 bytes.
RECURSIVE WalkStack(_, _, _)
WalkStack(stack, i, buf) ==
    IF i >= Len(stack) THEN [buf |-> buf, panicked |-> FALSE]
    ELSE
      LET frame == stack[i + 1]
      IN  IF Len(frame.file) < 10 THEN [buf |-> buf, panicked |-> TRUE]
          ELSE
            LET suffix == SliceFrom(frame.file, Len(frame.file) - 10)
            IN  IF suffix = PanicSuffix THEN WalkStack(stack, i + 1, buf)
                ELSE IF suffix = ValueSuffix THEN [buf |-> buf, panicked |-> FALSE]
                ELSE WalkStack(stack, i + 1,
                               buf \o StackFormat(frame.file, frame.line, frame.pc))

\* the frame the walk starts at
FirstFrame == 3

\* the request context a log line reads
Context ==
    [RemoteAddr |-> "10.0.0.1:4000", UserId |-> 7, Method |-> "GET",
     RequestURI |-> "/users/5", Proto |-> "HTTP/1.1", written |-> 27]

\* doLog with strings.Replace(errStr, "\n", ";", 1)
RECURSIVE ReplaceFirst(_, _, _)
ReplaceFirst(s, old, new) ==
    IF Len(s) = 0 THEN <<>>
    ELSE IF Head(s) = old THEN new \o Tail(s)
    ELSE <<Head(s)>> \o ReplaceFirst(Tail(s), old, new)

doLogFirstOnly(logger, context, errorString, stack) ==
    [logger |-> logger,
     remoteAddr |-> context.RemoteAddr,
     userId |-> context.UserId,
     time |-> "now",
     method |-> context.Method,
     requestURI |-> context.RequestURI,
     proto |-> context.Proto,
     written |-> context.written,
     error |-> ReplaceFirst(errorString, NL, <<";">>),
     stack |-> stack]

\* the arguments doLog hands to logger.Printf(logFormat, ...), in the order
\* of the format's verbs
doLog(logger, context, errorString, stack) ==
    [logger |-> logger,
     remoteAddr |-> context.RemoteAddr,
     userId |-> context.UserId,
     time |-> "now",
     method |-> context.Method,
     requestURI |-> context.RequestURI,
     proto |-> context.Proto,
     written |-> context.written,
     error |-> ReplaceAll(errorString, NL, <<";">>),
     stack |-> stack]

\* the stack argument of RequestError.Log
RequestErrorStack == <<"-">>

Messages ==
    { <<>>, <<"b","a","d">>, <<"a", NL, "b">>, <<NL, "x", NL, NL>> }

Frame(f, l, c) == [file |-> f, line |-> l, pc |-> c]

\* AppError.Log itself, which runtime.Caller(0) names
LogFrame == Frame(<<"/","j","a","s","/","e","r","r","o","r",".","g","o">>, 107, 4096)

FramePool ==
    { Frame(<<"/","s","r","v","/","u","s","e","r","s",".","g","o">>, 42, 255),
      Frame(<<"/","x","/","a",".","g","o">>, 7, 16),
      Frame(<<"r","u","n","t","i">> \o PanicSuffix, 513, 43981),
      Frame(<<"r","e","f","l","e","c">> \o ValueSuffix, 337, 2748) }

Stacks == { <<LogFrame>> \o above : above \in SeqsUpTo(FramePool, MaxStack) }

InitLog ==
    /\ resources = <<>>
    /\ pc = "log"
    /\ methodMap = EmptyMap
    /\ gapsMap = EmptyMap
    /\ request = None
    /\ resolved = None
    /\ served = None
    /\ requestErrorLogger \in BOOLEAN
    /\ internalErrorLogger \in BOOLEAN
    /\ logCall = None
    /\ logged = <<>>
    /\ logPanicked = FALSE

\* NewRequestError(msg).Log(context)
RequestErrorLog(msg) ==
    /\ pc = "log"
    /\ pc' = "logged"
    /\ logCall' = [kind |-> "RequestError", msg |-> msg]
    /\ logged' = IF requestErrorLogger
                 THEN <<doLog("RequestErrorLogger", Context, msg, RequestErrorStack)>>
                 ELSE <<>>
    /\ logPanicked' = FALSE
    /\ UNCHANGED <<requestErrorLogger, internalErrorLogger>>
    /\ UNCHANGED routerVars

\* NewInternalError(errors.New(msg)).Log(context), called under the call
\* stack `stack`
InternalErrorLog(msg, stack) ==
    /\ pc = "log"
    /\ pc' = "logged"
    /\ logCall' = [kind |-> "InternalError", msg |-> msg, stack |-> stack]
    /\ IF internalErrorLogger
       THEN LET walk == WalkStack(stack, FirstFrame, <<>>)
            IN  /\ logPanicked' = walk.panicked
                /\ logged' = IF walk.panicked THEN <<>>
                             ELSE <<doLog("InternalErrorLogger", Context, msg, walk.buf)>>
       ELSE /\ logPanicked' = FALSE
            /\ logged' = <<>>
    /\ UNCHANGED <<requestErrorLogger, internalErrorLogger>>
    /\ UNCHANGED routerVars

NextLog ==
    \/ \E msg \in Messages : RequestErrorLog(msg)
    \/ \E msg \in {<<"b","a","d">>, <<"a", NL, "b">>}, stack \in Stacks :
          InternalErrorLog(msg, stack)

SpecLog == InitLog /\ [][NextLog]_vars

----------------------------------------------------------------------------
(* Reading route keys and resources *)

\* the verb of a key "<VERB> /<path>" and the segments of its path
KeyVerb(k) == Split(k, " ")[1]

KeySegments(k) == Split(SliceFrom(k, Len(KeyVerb(k)) + 2), "/")

HasIdSegment(k) == \E i \in DOMAIN KeySegments(k) : KeySegments(k)[i] = IDSEG

EndsWith(s, t) == Len(s) >= Len(t) /\ SliceFrom(s, Len(s) - Len(t)) = t

\* NewRouter has returned; ServeHTTP leaves the tables as they are
Built == pc = "serving"

ValidMethods(v) == { i \in DOMAIN v.methods : validateMethod(v.methods[i]) }

\* the keys the methods of argument ri are registered under
KeyOf(ri, i) ==
    MethodKey(ResourcePath(resources[ri]),
              IsIdResource(convertName(resources[ri].name)),
              resources[ri].methods[i])

KeysOf(ri) == { KeyOf(ri, i) : i \in ValidMethods(resources[ri]) }

HandlerOf(ri, i) == [res |-> ri, method |-> resources[ri].methods[i].name]

\* the words of a method name, and those after the verb
WordsOf(m) == Split(convertName(m.name), WordSeparator)

HasVerb(m) == IsHttpMethodWord(WordsOf(m)[1])

PathWords(m) == IF HasVerb(m) THEN Tail(WordsOf(m)) ELSE WordsOf(m)

VerbOf(m) == IF HasVerb(m) THEN ToUpper(WordsOf(m)[1]) ELSE GET

Front(q) == SubSeq(q, 1, Len(q) - 1)

NameEndsInId(n) == EndsWith(n, Id)

----------------------------------------------------------------------------
(* C1 *)

Probe == <<"x">>

\* the requests that could resolve to key k: its own segments, each also
\* replaced by a number or by another literal, under every verb
RoundTripPaths(k) ==
    LET ks == KeySegments(k)
    IN  { Join(ss, SLASH) :
            ss \in UNION { { t \in [1..n -> UNION { {ks[j], five, Probe} : j \in DOMAIN ks }] :
                               \A j \in 1..n : j <= Len(ks) => t[j] \in {ks[j], five, Probe} }
                           : n \in 1..Len(ks) } }

RoundTripMethods(k) == ResolveMethods \cup {DETETE, KeyVerb(k)}

\* C1: every key NewRouter registers is the key resolvePath returns for
\* some request, under the gap table of the same NewRouter call.
C1_RoundTrip ==
    pc = "serving" =>
        \A k \in DOMAIN methodMap :
            \E method \in RoundTripMethods(k), rawPath \in RoundTripPaths(k) :
                resolvePath(gapsMap, method, rawPath).path = k

----------------------------------------------------------------------------
(* C2, C3, C10: the resolver *)

\* C2: the verb of the resolved key is the request's method for POST, PUT
\* and DELETE, and GET for every other method.
C2_VerbOfKey ==
    pc = "resolved" =>
        KeyVerb(resolved.path) =
            IF request.method \in {POST, PUT, DELETE} THEN request.method ELSE GET

Parses(seg) == ParseInt(seg).err = "nil"

\* the request segment whose parse gives the id: segments[1], or else the
\* segment after the method segment (0 when there is none); 1-based
IdSegment(r) ==
    LET segs == r.segments
        after == Len(r.gaps) + 3
    IN  IF Len(segs) >= 2 /\ Parses(segs[2]) THEN 2
        ELSE IF Len(segs) >= after /\ Parses(segs[after]) THEN after
        ELSE 0

\* C3: the resolved key has a ":id" segment only if segments[1] or the
\* segment after the method segment parsed as an int64; a request of
\* non-numeric segments never resolves to a key with ":id".
C3_IdOnlyFromParse ==
    pc = "resolved" =>
        /\ HasIdSegment(resolved.path) => IdSegment(resolved) # 0
        /\ (\A i \in DOMAIN resolved.segments : ~Parses(resolved.segments[i]))
              => ~HasIdSegment(resolved.path)

\* C10: the id returned with a key without ":id" is 0, and the id returned
\* with a key with ":id" is the value of the segment that parsed.
C10_IdValue ==
    pc = "resolved" =>
        /\ ~HasIdSegment(resolved.path) => resolved.id = ZERO
        /\ (HasIdSegment(resolved.path) /\ IdSegment(resolved) # 0)
              => resolved.id = ParseInt(resolved.segments[IdSegment(resolved)]).val

----------------------------------------------------------------------------
(* C4, C5: the id conventions of NewRouter *)

\* the keys the handler of method i of argument ri is registered under
RegisteredKeys(ri, i) ==
    { k \in DOMAIN methodMap : methodMap[k] = HandlerOf(ri, i) }

\* the key of C4 for a resource named n and a method m without a verb word
IdResourceKey(n, m) ==
    GET \o <<" ", "/">> \o convertName(SliceTo(n, Len(n) - Len(Id)))
        \o SLASHID \o SLASH \o convertName(m.name)

IdResourceKeysRegistered(longerThanId) ==
    Built =>
        \A ri \in DOMAIN resources :
            LET v == resources[ri]
            IN  (NameEndsInId(v.name) /\ (longerThanId => Len(v.name) > Len(Id))) =>
                    \A i \in ValidMethods(v) :
                        ~HasVerb(v.methods[i]) =>
                            IdResourceKey(v.name, v.methods[i]) \in DOMAIN methodMap

IsIdResourceName(n) == IsIdResource(convertName(n))

\* the last word of the method is "id" and there are at least minWords
\* words, or minVerbWords when the first word is a verb
IdMethodName(m, minWords, minVerbWords) ==
    /\ Len(WordsOf(m)) >= (IF HasVerb(m) THEN minVerbWords ELSE minWords)
    /\ WordsOf(m)[Len(WordsOf(m))] = ToLower(Id)

----------------------------------------------------------------------------
(* C6: the gap scenario *)

IsUsersWithGap(v) ==
    /\ v.name = Users
    /\ v.isPointer
    /\ v.hasGap
    /\ v.gap = profile
    /\ \E i \in DOMAIN v.methods : v.methods[i] = mGet_Name

GapScenario(key, urlPath) ==
    (pc \in {"serving", "served"}
        /\ \E ri \in DOMAIN resources : IsUsersWithGap(resources[ri])) =>
        /\ key \in DOMAIN methodMap
        /\ methodMap[key].method = mGet_Name.name
        /\ users \in DOMAIN gapsMap
        /\ gapsMap[users] = <<profile>>
        /\ (pc = "served" /\ request = [method |-> GET, path |-> urlPath]) =>
              /\ resolved.path = key
              /\ resolved.id = ZERO
              /\ resolved.gaps = <<profile>>
              /\ served.status = "Called"
              /\ served.handler = methodMap[key]

\* C6 as claimed: Users with gap "profile" and method Get_Name is registered
\* as GET /users/profile/name with the gap entry users -> [profile], and the
\* request GET users/profile/name resolves to that key with id 0 and gaps
\* [profile].
C6_GapScenarioAsClaimed ==
    GapScenario(GET \o <<" ">> \o SLASH \o users \o SLASH \o profile \o SLASH \o nameSeg,
                SLASH \o users \o SLASH \o profile \o SLASH \o nameSeg)

\* C6 as amended: the method Get_Name converts to get__name and is registered
\* as GET /users/profile/_name, with the gap entry users -> [profile]; the
\* request GET users/profile/_name resolves to that key with id 0 and gaps
\* [profile], and is handed to Get_Name.
C6_GapScenario ==
    GapScenario(GET \o <<" ">> \o SLASH \o users \o SLASH \o profile \o SLASH \o usname,
                SLASH \o users \o SLASH \o profile \o SLASH \o usname)

C6_Witness ==
    /\ pc = "served"
    /\ \E ri \in DOMAIN resources : IsUsersWithGap(resources[ri])
    /\ request = [method |-> GET,
                  path |-> SLASH \o users \o SLASH \o profile \o SLASH \o usname]
    /\ served.status = "Called"

----------------------------------------------------------------------------
(* C7: duplicate registration *)

Max(S) == CHOOSE x \in S : \A y \in S : y <= x

\* the arguments that produce key k
ProducersOf(k) == { ri \in DOMAIN resources : k \in KeysOf(ri) }

\* C7: construction over arguments that produce the same key completes, and
\* the table holds, for every key any argument produces, the one handler of
\* the last argument that produces it; no other key is in the table.
C7_LaterWins ==
    /\ (pc # "new" /\ \A ri \in DOMAIN resources : resources[ri].isPointer) =>
          pc # "panicked"
    /\ Built =>
          LET keys == [ri \in DOMAIN resources |->
                          [i \in ValidMethods(resources[ri]) |-> KeyOf(ri, i)]]
              all == UNION { { keys[ri][i] : i \in DOMAIN keys[ri] } : ri \in DOMAIN keys }
          IN  /\ DOMAIN methodMap = all
              /\ \A k \in all :
                    LET last == Max({ ri \in DOMAIN keys :
                                        \E i \in DOMAIN keys[ri] : keys[ri][i] = k })
                        m == Max({ i \in DOMAIN keys[last] : keys[last][i] = k })
                    IN  methodMap[k] = HandlerOf(last, m)

C7_Witness ==
    /\ pc = "serving"
    /\ \E k \in DOMAIN methodMap :
          /\ Cardinality(ProducersOf(k)) = 2
          /\ methodMap[k].res = 2
          /\ resources[1] # resources[2]
    /\ \E k \in DOMAIN methodMap : Cardinality(ProducersOf(k)) = 1

----------------------------------------------------------------------------
(* C8, C9: the log lines *)

\* a file name matches a boundary marker when the marker is its end
Matches(file, marker) == EndsWith(file, marker)

\* the frames from FirstFrame up to the first dispatch frame behind it,
\* the panic-recovery frames left out, each formatted by StackFormat
RECURSIVE FormatFrames(_)
FormatFrames(frames) ==
    IF Len(frames) = 0 THEN <<>>
    ELSE IF Matches(Head(frames).file, ValueSuffix) THEN <<>>
    ELSE (IF Matches(Head(frames).file, PanicSuffix) THEN <<>>
          ELSE StackFormat(Head(frames).file, Head(frames).line, Head(frames).pc))
         \o FormatFrames(Tail(frames))

\* the frames InternalError.Log is meant to walk: those from FirstFrame on
Walked(stack) == SliceFrom(stack, FirstFrame)

\* there is a dispatch frame among them, and before the first one a frame
\* to log
DispatchBehindFrames(stack) ==
    \E i \in DOMAIN Walked(stack) :
        /\ Matches(Walked(stack)[i].file, ValueSuffix)
        /\ \A j \in 1..(i - 1) : ~Matches(Walked(stack)[j].file, ValueSuffix)
        /\ \E j \in 1..(i - 1) : ~Matches(Walked(stack)[j].file, PanicSuffix)

\* C8: with InternalErrorLogger set and a dispatch frame on the walked part
\* of the call stack, whatever the lengths of the file names,
\* InternalError.Log completes and hands the logger a non-empty stack
\* string, made of the frames from frame 3 up to the first dispatch frame,
\* without the panic-recovery frames.
C8_StackCapture ==
    (/\ pc = "logged"
     /\ logCall.kind = "InternalError"
     /\ internalErrorLogger
     /\ DispatchBehindFrames(logCall.stack)) =>
        /\ ~logPanicked
        /\ Len(logged) = 1
        /\ logged[1].stack # <<>>
        /\ logged[1].stack = FormatFrames(Walked(logCall.stack))

RequestErrorLine(stack) ==
    (pc = "logged" /\ logCall.kind = "RequestError") =>
        IF requestErrorLogger
        THEN /\ Len(logged) = 1
             /\ logged[1].logger = "RequestErrorLogger"
             /\ logged[1].stack = stack
             /\ \A i \in DOMAIN logged[1].error : logged[1].error[i] # NL
             /\ Len(logged[1].error) = Len(logCall.msg)
             /\ \A i \in DOMAIN logCall.msg :
                   logged[1].error[i] = IF logCall.msg[i] = NL THEN ";" ELSE logCall.msg[i]
        ELSE logged = <<>>

\* C9 as claimed: the line RequestError.Log writes has the empty string as
\* its stack field and an error field in which ";" stands for every newline
\* of Error(); without RequestErrorLogger nothing is written.
C9_RequestErrorLineAsClaimed == RequestErrorLine(<<>>)

\* C9 as amended: the stack field of that line is the string "-"; the rest
\* as claimed.
C9_RequestErrorLine == RequestErrorLine(<<"-">>)

C9_Witness ==
    /\ pc = "logged"
    /\ logCall.kind = "RequestError"
    /\ requestErrorLogger
    /\ Len(logged) = 1
    /\ Cardinality({ i \in DOMAIN logCall.msg : logCall.msg[i] = NL }) > 1

====
